---- MODULE Spec2Model ----
(***************************************************************************)
(* Enclosing-wall visibility overlay of robocasa                           *)
(* (robocasa/wrappers/enclosing_wall_render_wrapper.py).                   *)
(*                                                                         *)
(* Conventions.                                                            *)
(*  - An Optional value (Python None or a value) is a sequence of length 0 *)
(*    or 1: None is <<>>, a value x is <<x>>.                              *)
(*  - A name is a sequence of one-character strings: "w_a" is              *)
(*    <<"w","_","a">>.                                                     *)
(*  - Python arrays are 0-based; an array is a sequence and element i of   *)
(*    it is At(seq, i) = seq[i + 1].  Geometry and body indices keep their *)
(*    0-based Python values.                                               *)
(*  - An alpha value is a number of hundredths: 1.0 is 100, 0.1 is 10.     *)
(*  - A dict int -> float is a set of pairs <<key, value>> with distinct   *)
(*    keys.                                                                *)
(***************************************************************************)
EXTENDS Integers, Sequences, FiniteSets, TLC

VARIABLES
    wrapped,         \* the env chain of the session holds an EnclosingWallRenderWrapper
    alpha,           \* wrapper.alpha
    enabled,         \* wrapper.enabled
    geom_ids,        \* wrapper._geom_ids: Optional sequence of geometry indices
    saved_alpha,     \* wrapper._saved_alpha: set of <<geometry index, alpha>>
    last_model_ptr,  \* wrapper._last_model_ptr: Optional id(model)
    sim,             \* base.sim: "noattr" | "none" | "nomodel" (sim.model is None) | "live"
    model,           \* base.sim.model: [ptr, scene, rgba]; NoModel unless sim = "live"
    toggle_req,      \* env._toggle_enclosing_walls
    force_req,       \* env._force_enclosing_walls_opaque
    listener,        \* Listener objects started for env (the attribute is not None iff > 0)
    call,            \* history: the last operation, its argument and its outcome
    ids_fresh,       \* history: _geom_ids was resolved against the live model object
    saved_stale,     \* history: _saved_alpha holds a value read from a model object that is gone
    resolver,        \* a call of the geometry resolver on its own: its inputs and its result
    poll,            \* consume_pending in progress: [pc, force_opaque, toggle], its position and locals
    unserved,        \* history: the toggle key was released and no wrapper call has followed yet
    dl               \* a call of a download script's retry-and-extract function: [fn, pc, i,
                     \* download_success, file (the archive path exists), errors (the
                     \* exceptions printed), log (history)]

vars == <<wrapped, alpha, enabled, geom_ids, saved_alpha, last_model_ptr,
          sim, model, toggle_req, force_req, listener, call, ids_fresh, saved_stale,
          resolver, poll, unserved, dl>>

wrapper_vars == <<alpha, enabled, geom_ids, saved_alpha, last_model_ptr>>

(***************************************************************************)
(* Bounds of the model                                                     *)
(***************************************************************************)
NumPtrs == 2      \* addresses id(model) ranges over
NumScenes == 3    \* scenes (layout + scene graph) the engine can load
MaxBodies == 3    \* bodies of a scene graph handed to the resolver on its own
MaxNameLen == 3   \* length of a body or geometry name handed to the name rule
MaxWalls == 2     \* wall records of a layout descriptor handed to the registry

(***************************************************************************)
(* Values                                                                  *)
(***************************************************************************)
None == <<>>
Some(x) == <<x>>
At(seq, i) == seq[i + 1]

Opaque == 100                 \* 1.0, the alpha written when disabled
DefaultAlpha == 10            \* 0.1, the default overlay alpha
AlphaChoices == {DefaultAlpha, 50}   \* overlay alphas a session is built with
OrigAlphas == {50, Opaque}    \* alphas a freshly loaded scene graph can carry

Ptrs == 1..NumPtrs

(***************************************************************************)
(* Layout descriptors (the YAML the layout registry loads).                *)
(* enclosing_wall is "true", "false", "absent" or "other" (a non-boolean   *)
(* value such as 1 or "yes").                                              *)
(***************************************************************************)
Wall(n, flag) == [name |-> n, enclosing_wall |-> flag]

LayoutData(layout_id) ==
    CASE layout_id = 1 ->
           Some([room |-> Some([walls |-> Some(<<Wall(Some(<<"w">>), "true"),
                                                  Wall(Some(<<"v">>), "false")>>)])])
      [] layout_id = 2 ->
           Some([room |-> Some([walls |-> Some(<<Wall(Some(<<"w">>), "false"),
                                                  Wall(Some(<<"v">>), "absent"),
                                                  Wall(Some(<<"b">>), "other")>>)])])
      [] layout_id = 3 -> Some([room |-> None])
      [] layout_id = 4 -> Some([room |-> Some([walls |-> None])])
      [] layout_id = 5 ->   \* a flagged wall record without a name
           Some([room |-> Some([walls |-> Some(<<Wall(None, "true"),
                                                  Wall(Some(<<"w">>), "true")>>)])])
      [] OTHER -> None

(***************************************************************************)
(* Scenes: what one load of the engine produces, the layout id of the      *)
(* base env and the structure of the scene graph.                          *)
(***************************************************************************)
Scene(k) ==
    CASE k = 1 ->   \* floor geom on the world body; wall body "w_a", its geom on a child body
           [layout_id |-> Some(1),
            body_names |-> <<Some(<<"o">>), Some(<<"w", "_", "a">>), None>>,
            body_parentid |-> <<0, 0, 1>>,
            geom_bodyid |-> <<0, 2>>,
            geom_names |-> <<Some(<<"f">>), None>>]
      [] k = 2 ->   \* no wall body; the only geom, "b_w", matches by its own name
           [layout_id |-> Some(1),
            body_names |-> <<Some(<<"o">>), Some(<<"c">>)>>,
            body_parentid |-> <<0, 0>>,
            geom_bodyid |-> <<1>>,
            geom_names |-> <<Some(<<"b", "_", "w">>)>>]
      [] k = 3 ->   \* wall-like names, but the layout flags no wall as enclosing
           [layout_id |-> Some(2),
            body_names |-> <<Some(<<"o">>), Some(<<"w">>)>>,
            body_parentid |-> <<0, 0>>,
            geom_bodyid |-> <<1>>,
            geom_names |-> <<Some(<<"w">>)>>]
      [] k = -1 ->  \* the layout descriptor has no room
           [layout_id |-> Some(3),
            body_names |-> <<Some(<<"o">>), Some(<<"w">>)>>,
            body_parentid |-> <<0, 0>>,
            geom_bodyid |-> <<1>>,
            geom_names |-> <<Some(<<"w">>)>>]
      [] k = -2 ->  \* the room has no walls
           [layout_id |-> Some(4),
            body_names |-> <<Some(<<"o">>), Some(<<"w">>)>>,
            body_parentid |-> <<0, 0>>,
            geom_bodyid |-> <<1>>,
            geom_names |-> <<Some(<<"w">>)>>]
      [] k = -3 ->  \* a flagged wall record has no name
           [layout_id |-> Some(5),
            body_names |-> <<Some(<<"o">>), Some(<<"w">>)>>,
            body_parentid |-> <<0, 0>>,
            geom_bodyid |-> <<1>>,
            geom_names |-> <<Some(<<"w">>)>>]
      [] OTHER ->   \* a base env without a layout_id attribute
           [layout_id |-> None,
            body_names |-> <<Some(<<"o">>), Some(<<"w">>)>>,
            body_parentid |-> <<0, 0>>,
            geom_bodyid |-> <<1>>,
            geom_names |-> <<Some(<<"w", "_", "g">>)>>]

nbody(sc) == Len(sc.body_names)
ngeom(sc) == Len(sc.geom_names)

NoModel == [ptr |-> 0, scene |-> 0, rgba |-> <<>>]

\* scenes whose layout descriptor lacks a field (room, walls, a wall's name)
SparseScenes == {-1, -2, -3}

\* every model object a load of a scene with a sparse layout can produce
SparseModels ==
    UNION { { [ptr |-> p, scene |-> k, rgba |-> a] :
                p \in Ptrs, a \in [1..ngeom(Scene(k)) -> OrigAlphas] } :
            k \in SparseScenes }

\* every model object a load can produce
FreshModels ==
    UNION { { [ptr |-> p, scene |-> k, rgba |-> a] :
                p \in Ptrs, a \in [1..ngeom(Scene(k)) -> OrigAlphas] } :
            k \in 1..NumScenes }

(***************************************************************************)
(* Layout Wall Registry: _get_enclosing_wall_names_from_layout             *)
(***************************************************************************)
\* mutant: the flag is tested for truthiness, not for being True
is_enclosing_truthy(w) == w.enclosing_wall \in {"true", "other"}

\* w.get("enclosing_wall", False) is True
is_enclosing(w) == w.enclosing_wall = "true"

\* lines 196-197 on the loaded descriptor layout_data (None: an empty file)
enclosing_wall_names(layout_data) ==
    LET room == IF layout_data = None THEN None ELSE layout_data[1].room
        walls == IF room = None THEN <<>>                           \* (... .get("room") or {})
                 ELSE IF room[1].walls = None THEN <<>>             \* .get("walls") or []
                 ELSE room[1].walls[1]
        flagged == SelectSeq(walls, is_enclosing)
    IN  [i \in 1..Len(flagged) |-> flagged[i].name]                 \* w.get("name"), None if absent

get_enclosing_wall_names_from_layout(layout_id) ==
    enclosing_wall_names(LayoutData(layout_id))                    \* yaml.safe_load(f) or {}

(***************************************************************************)
(* Geometry Resolver: _match_geom_ids                                      *)
(***************************************************************************)
StartsWith(s, p) == Len(s) >= Len(p) /\ SubSeq(s, 1, Len(p)) = p
EndsWith(s, p) == Len(s) >= Len(p) /\ SubSeq(s, Len(s) - Len(p) + 1, Len(s)) = p

\* mutant: prefix and suffix are compared without the underscore separator
name_matches_no_separator(name, ename) ==
    \/ name = ename
    \/ StartsWith(name, ename)
    \/ EndsWith(name, ename)

\* the three rules of one comparison of a name with a wall name (both strings)
name_matches(name, ename) ==
    \/ name = ename
    \/ StartsWith(name, ename \o <<"_">>)
    \/ EndsWith(name, <<"_">> \o ename)

\* the inner loop "for ename in enclosing_names": "match", "nomatch", or
\* "TypeError" when a None wall name reaches ename + "_"
RECURSIVE match_any(_, _, _)
match_any(name, enclosing_names, k) ==
    IF k > Len(enclosing_names) THEN "nomatch"
    ELSE LET ename == enclosing_names[k] IN
         IF ename = Some(name) THEN "match"
         ELSE IF ename = None THEN "TypeError"
         ELSE IF name_matches(name, ename[1]) THEN "match"
         ELSE match_any(name, enclosing_names, k + 1)

body_outcome(sc, b, enclosing_names) ==
    IF At(sc.body_names, b) = None THEN "nomatch"
    ELSE match_any(At(sc.body_names, b)[1], enclosing_names, 1)

\* one pass "for b in range(model.nbody)" of the descendant loop, from body b on
RECURSIVE closure_pass(_, _, _)
closure_pass(sc, b, body_ids) ==
    IF b >= nbody(sc) THEN body_ids
    ELSE IF b \in body_ids THEN closure_pass(sc, b + 1, body_ids)
    ELSE LET parent == At(sc.body_parentid, b) IN
         IF parent >= 0 /\ parent \in body_ids
         THEN closure_pass(sc, b + 1, body_ids \cup {b})
         ELSE closure_pass(sc, b + 1, body_ids)

\* mutant: one pass over the bodies only
descendant_closure_one_pass(sc, body_ids) == closure_pass(sc, 0, body_ids)

\* "while added": passes are repeated until one adds nothing
RECURSIVE descendant_closure(_, _)
descendant_closure(sc, body_ids) ==
    LET next == closure_pass(sc, 0, body_ids) IN
    IF next = body_ids THEN body_ids ELSE descendant_closure(sc, next)

\* mutant: a geometry is taken only for its owning body
geom_outcome_body_only(sc, i, body_ids, enclosing_names) ==
    IF At(sc.geom_bodyid, i) \in body_ids THEN "match" ELSE "nomatch"

geom_outcome(sc, i, body_ids, enclosing_names) ==
    IF At(sc.geom_bodyid, i) \in body_ids THEN "match"
    ELSE IF At(sc.geom_names, i) = None THEN "nomatch"
    ELSE match_any(At(sc.geom_names, i)[1], enclosing_names, 1)

\* the loop "for i in range(model.ngeom)", from geom i on, appending to geom_ids
RECURSIVE collect_geoms(_, _, _, _, _)
collect_geoms(sc, i, body_ids, enclosing_names, acc) ==
    IF i >= ngeom(sc) THEN acc
    ELSE IF geom_outcome(sc, i, body_ids, enclosing_names) = "match"
         THEN collect_geoms(sc, i + 1, body_ids, enclosing_names, Append(acc, i))
         ELSE collect_geoms(sc, i + 1, body_ids, enclosing_names, acc)

\* [exc, ids]: exc is "" or the exception raised, ids the array returned
match_geom_ids(sc, enclosing_names) ==
    IF Len(enclosing_names) = 0 THEN [exc |-> "", ids |-> <<>>]
    ELSE
      LET bodies == 0..(nbody(sc) - 1)
          matched == {b \in bodies : body_outcome(sc, b, enclosing_names) = "match"}
          body_ids == descendant_closure(sc, matched)
      IN  IF \E b \in bodies : body_outcome(sc, b, enclosing_names) = "TypeError"
          THEN [exc |-> "TypeError", ids |-> <<>>]
          ELSE IF \E i \in 0..(ngeom(sc) - 1) :
                     geom_outcome(sc, i, body_ids, enclosing_names) = "TypeError"
          THEN [exc |-> "TypeError", ids |-> <<>>]
          ELSE [exc |-> "", ids |-> collect_geoms(sc, 0, body_ids, enclosing_names, <<>>)]

(***************************************************************************)
(* Overlay State Machine: EnclosingWallRenderWrapper                       *)
(*                                                                         *)
(* The operations are operators from the wrapper's fields w, the engine e  *)
(* = [sim, model] and the call's inputs to an outcome                      *)
(*   [w, rgba, exc, resolved, cleared]:                                    *)
(* the fields and the alpha buffer when the call returns or raises, the    *)
(* exception raised ("" if none), whether _geom_ids was computed for the   *)
(* live model in the call and whether _saved_alpha was emptied in it.      *)
(***************************************************************************)
Wrapper(a, en, ids, saved, ptr) ==
    [alpha |-> a, enabled |-> en, geom_ids |-> ids, saved_alpha |-> saved,
     last_model_ptr |-> ptr]

Engine(s, m) == [sim |-> s, model |-> m]

Outcome(w, rgba, exc, resolved, cleared) ==
    [w |-> w, rgba |-> rgba, exc |-> exc, resolved |-> resolved, cleared |-> cleared]

\* lines 281-289 for each scene the engine can load: the layout's wall names
\* are read and matched against the scene graph
SceneGeomIds ==
    [k \in (1..NumScenes) \cup SparseScenes |->
        IF Scene(k).layout_id = None THEN [exc |-> "", ids |-> <<>>]
        ELSE match_geom_ids(Scene(k),
                            get_enclosing_wall_names_from_layout(Scene(k).layout_id[1]))]

\* _get_enclosing_wall_geom_ids: [exc, geom_ids, resolved], geom_ids the new self._geom_ids
\* a cache that is recomputed whenever it holds no index
cache_hit_nonempty(w) == w.geom_ids # None /\ Len(w.geom_ids[1]) > 0

\* the test of line 269, self._geom_ids is not None: an empty array is a hit
cache_hit(w) == w.geom_ids # None

get_enclosing_wall_geom_ids(w, e) ==
    IF cache_hit(w)
    THEN [exc |-> "", geom_ids |-> w.geom_ids, resolved |-> FALSE]
    ELSE IF e.sim \in {"noattr", "none"} \/ Scene(e.model.scene).layout_id = None
    THEN [exc |-> "", geom_ids |-> Some(<<>>), resolved |-> e.sim = "live"]
    ELSE IF e.sim = "nomodel"
    THEN [exc |-> "", geom_ids |-> Some(<<>>), resolved |-> FALSE]
    ELSE LET r == SceneGeomIds[e.model.scene]
         IN  IF r.exc # ""
             THEN [exc |-> r.exc, geom_ids |-> None, resolved |-> FALSE]
             ELSE [exc |-> "", geom_ids |-> Some(r.ids), resolved |-> TRUE]

\* the test of line 171, self._last_model_ptr != id(model)
model_reloaded(w, e) == w.last_model_ptr # Some(e.model.ptr)

HasKey(saved, gi) == \E p \in saved : p[1] = gi
InRange(ids, rgba) == \A k \in 1..Len(ids) : ids[k] < Len(rgba)

\* "save originals once": the loop of lines 182-184 from position k on;
\* reading geom_rgba[gi] beyond the buffer raises IndexError
RECURSIVE save_originals(_, _, _, _)
save_originals(ids, k, saved, rgba) ==
    IF k > Len(ids) THEN [exc |-> "", saved |-> saved]
    ELSE IF HasKey(saved, ids[k]) THEN save_originals(ids, k + 1, saved, rgba)
    ELSE IF ids[k] >= Len(rgba) THEN [exc |-> "IndexError", saved |-> saved]
    ELSE save_originals(ids, k + 1, saved \cup {<<ids[k], At(rgba, ids[k])>>}, rgba)

\* mutant: the write goes to the alpha of every geometry
write_alpha_everywhere(rgba, ids, value) == [i \in 1..Len(rgba) |-> value]

\* model.geom_rgba[geom_ids, 3] = value (the indices are in range)
write_alpha(rgba, ids, value) ==
    [i \in 1..Len(rgba) |->
        IF \E k \in 1..Len(ids) : ids[k] = i - 1 THEN value ELSE rgba[i]]

\* mutant: the disabled branch writes the overlay alpha
disabled_alpha_overlay(w) == w.alpha

\* the value of line 188
disabled_alpha(w) == Opaque

\* mutant: the disabled branch writes back the saved originals
restored_rgba_originals(w, rgba, ids) ==
    [i \in 1..Len(rgba) |->
        IF \E p \in w.saved_alpha : p[1] = i - 1
        THEN (CHOOSE p \in w.saved_alpha : p[1] = i - 1)[2]
        ELSE rgba[i]]

\* line 188: the alpha buffer after the disabled branch's write
restored_rgba(w, rgba, ids) == write_alpha(rgba, ids, disabled_alpha(w))

\* mutant: the enabled branch writes the default alpha, not the configured one
enabled_alpha_default(w) == DefaultAlpha

\* the value of line 185
enabled_alpha(w) == w.alpha

\* lines 180-185, s the outcome of the loop that saves the originals
apply_enabled(w2, ids, rgba, resolved, reloaded, s) ==
    IF s.exc # ""
    THEN Outcome([w2 EXCEPT !.saved_alpha = s.saved], rgba, s.exc, resolved, reloaded)
    ELSE IF ~InRange(ids, rgba)
    THEN Outcome([w2 EXCEPT !.saved_alpha = s.saved], rgba, "IndexError", resolved, reloaded)
    ELSE Outcome([w2 EXCEPT !.saved_alpha = s.saved],
                 write_alpha(rgba, ids, enabled_alpha(w2)), "", resolved, reloaded)

\* lines 186-189
apply_disabled(w2, ids, rgba, resolved, reloaded) ==
    IF ~InRange(ids, rgba)
    THEN Outcome(w2, rgba, "IndexError", resolved, reloaded)
    ELSE Outcome([w2 EXCEPT !.saved_alpha = {}], restored_rgba(w2, rgba, ids),
                 "", resolved, TRUE)

\* lines 175-189, r the outcome of _get_enclosing_wall_geom_ids
apply_resolved(w1, r, rgba, reloaded) ==
    IF r.exc # "" THEN Outcome([w1 EXCEPT !.geom_ids = r.geom_ids], rgba, r.exc, FALSE, reloaded)
    ELSE IF Len(r.geom_ids[1]) = 0
    THEN Outcome([w1 EXCEPT !.geom_ids = r.geom_ids], rgba, "", r.resolved, reloaded)
    ELSE IF w1.enabled
    THEN apply_enabled([w1 EXCEPT !.geom_ids = r.geom_ids], r.geom_ids[1], rgba,
                       r.resolved, reloaded,
                       save_originals(r.geom_ids[1], 1, w1.saved_alpha, rgba))
    ELSE apply_disabled([w1 EXCEPT !.geom_ids = r.geom_ids], r.geom_ids[1], rgba,
                        r.resolved, reloaded)

\* lines 169-174: the caches are dropped when the identity token differs
invalidated(w, e) ==
    IF model_reloaded(w, e)
    THEN Wrapper(w.alpha, w.enabled, None, {}, Some(e.model.ptr))
    ELSE w

\* mutant: the early returns of lines 162-167 are missing
apply_or_restore_unguarded(w, e) ==
    apply_resolved(invalidated(w, e),
                   get_enclosing_wall_geom_ids(invalidated(w, e), e),
                   e.model.rgba, model_reloaded(w, e))

apply_or_restore(w, e) ==
    IF e.sim \in {"noattr", "none"} THEN Outcome(w, e.model.rgba, "", FALSE, FALSE)
    ELSE IF e.sim = "nomodel" THEN Outcome(w, e.model.rgba, "", FALSE, FALSE)
    ELSE apply_resolved(invalidated(w, e),
                        get_enclosing_wall_geom_ids(invalidated(w, e), e),
                        e.model.rgba, model_reloaded(w, e))

\* mutant: the test of line 137 inverted
state_unchanged_inverted(w, v) == v # w.enabled

\* the test of line 137
state_unchanged(w, v) == v = w.enabled

set_enabled(w, e, v) ==
    IF state_unchanged(w, v) THEN Outcome(w, e.model.rgba, "", FALSE, FALSE)
    ELSE apply_or_restore([w EXCEPT !.enabled = v], e)

toggle(w, e) == set_enabled(w, e, ~w.enabled)

\* what the wrapped engine's own visualize does to the alpha buffer: nothing
\* (ew = <<>>), or it writes the alpha EngineAlpha to geometry ew[1] (ew = <<g>>)
EngineAlpha == CHOOSE v \in OrigAlphas : v # Opaque
EngineWrites(e) == {<<>>} \cup { <<g>> : g \in 0..(Len(e.model.rgba) - 1) }

engine_visualize(e, ew) ==
    IF e.sim = "live" /\ ew # <<>>
    THEN Engine(e.sim, [e.model EXCEPT !.rgba[ew[1] + 1] = EngineAlpha])
    ELSE e

\* mutant: the settings are forwarded but the overlay is not re-applied
visualize_forward_only(w, e1) == Outcome(w, e1.model.rgba, "", FALSE, FALSE)

\* visualize(vis_settings), e1 the engine as self.env.visualize left it
visualize(w, e1) == apply_or_restore(w, e1)

\* what the wrapped engine's reset can do: a soft reset keeps the model object,
\* a hard reset destroys the sim and builds a new model object, at any address
EngineReset(e) ==
    IF e.sim = "noattr" THEN {e}
    ELSE (IF e.sim = "live" THEN {e} ELSE {}) \cup { Engine("live", m) : m \in FreshModels }

\* mutant: reset keeps the cached ids, the saved alphas and the token
reset_keeps_caches(w, e1) ==
    IF w.enabled
    THEN apply_or_restore(w, e1)
    ELSE Outcome(w, e1.model.rgba, "", FALSE, FALSE)

\* reset(), e1 the engine as self.env.reset left it
reset(w, e1) ==
    LET w1 == Wrapper(w.alpha, w.enabled, None, {}, None) IN
    IF w1.enabled
    THEN [apply_or_restore(w1, e1) EXCEPT !.cleared = TRUE]
    ELSE Outcome(w1, e1.model.rgba, "", FALSE, TRUE)

(***************************************************************************)
(* Input Request Queue + Consumer: EnclosingWallHotkeyHandler              *)
(***************************************************************************)
\* what the redraw helper finds on the env: "none" (no vis_settings and no
\* _visualizations) or "settings" (vis_settings, or the dict built from
\* _visualizations)
VisSources == {"none", "settings"}

\* lines 44-49: viewer.update() if env.viewer is not None, else env.render()
\* if render was asked for and env has a render attribute
refreshed(o, pushed, viewer, render, has_render) ==
    [o |-> o, pushed |-> pushed,
     redraw |-> IF o.exc # "" THEN "none"
                ELSE IF viewer THEN "viewer"
                ELSE IF render /\ has_render THEN "render" ELSE "none"]

\* _refresh_visualization_and_redraw(env, render=render): vis says whether env
\* has visualization settings, has_visualize and has_render whether env has
\* the attributes visualize and render, wr that the env chain holds the
\* wrapper, so that env.visualize runs the wrapper's visualize
refresh_visualization_and_redraw(w, e, wr, render, vis, viewer, ew, has_visualize, has_render) ==
    IF vis = "none" \/ ~has_visualize
    THEN refreshed(Outcome(w, e.model.rgba, "", FALSE, FALSE), FALSE, viewer, render,
                   has_render)
    ELSE IF wr
    THEN refreshed(visualize(w, engine_visualize(e, ew)), TRUE, viewer, render,
                   has_render)
    ELSE refreshed(Outcome(w, engine_visualize(e, ew).model.rgba, "", FALSE, FALSE),
                   TRUE, viewer, render, has_render)

\* force-opaque is served first (line 79)
force_wins(force, tog) == force

\* mutant: the test of line 76 without its negations
nothing_pending_unnegated(force, tog) == force /\ tog

\* the test of line 76
nothing_pending(force, tog) == ~force /\ ~tog

\* mutant: Esc flips the toggle flag instead of setting it
on_release_flips(key, tog, force) ==
    IF key = "esc" THEN <<~tog, force>>
    ELSE IF key \in {"[", "]"} THEN <<tog, TRUE>>
    ELSE <<tog, force>>

\* _on_release(key): the flags <<toggle, force>> after the release
on_release(key, tog, force) ==
    IF key = "esc" THEN <<TRUE, force>>
    ELSE IF key \in {"[", "]"} THEN <<tog, TRUE>>
    ELSE <<tog, force>>

Keys == {"esc", "[", "]", "a"}

(***************************************************************************)
(* State machine                                                           *)
(***************************************************************************)
Self == Wrapper(alpha, enabled, geom_ids, saved_alpha, last_model_ptr)
Eng == Engine(sim, model)
B(v) == IF v THEN "True" ELSE "False"

\* the record of a call: the operation, its argument, what it returned
\* ("raised" if it raised exc), whether it flipped enabled, whether
\* visualization settings were pushed and which redraw hook was called
Call(op, arg, ret, exc, flip, pushed, redraw) ==
    [op |-> op, arg |-> arg, ret |-> ret, exc |-> exc, flip |-> flip,
     pushed |-> pushed, redraw |-> redraw]

\* the geometry the engine's own visualize wrote to, "" if none
EngineWrote(ew) == IF ew = <<>> THEN "" ELSE ToString(ew[1])

Returned(exc) == IF exc = "" THEN "None" ELSE "raised"

\* the state after an operation of the control thread: o its outcome, e1 the
\* engine as the engine's own part of the operation left it
Commit(o, e1) ==
    /\ alpha' = o.w.alpha
    /\ enabled' = o.w.enabled
    /\ geom_ids' = o.w.geom_ids
    /\ saved_alpha' = o.w.saved_alpha
    /\ last_model_ptr' = o.w.last_model_ptr
    /\ sim' = e1.sim
    /\ model' = [e1.model EXCEPT !.rgba = o.rgba]
    /\ ids_fresh' = IF o.w.geom_ids = None THEN FALSE
                    ELSE IF o.resolved THEN TRUE ELSE ids_fresh
    /\ saved_stale' = IF o.cleared \/ o.w.saved_alpha = {} THEN FALSE ELSE saved_stale

\* EnclosingWallRenderWrapper(env, alpha=a, enabled=en) on an engine e
Constructed(a, en, e) == set_enabled(Wrapper(a, FALSE, None, {}, None), e, en)

\* the resolver variable outside a call of the resolver on its own
NoGraph == [layout_id |-> None, body_names |-> <<>>, body_parentid |-> <<>>,
            geom_bodyid |-> <<>>, geom_names |-> <<>>]
NoResolve == [kind |-> "none", name |-> <<>>, graph |-> NoGraph, names |-> <<>>,
              layout |-> None, en |-> FALSE, out |-> None]

\* no download function in progress
NoDownload == [fn |-> "none", pc |-> "none", i |-> 0, download_success |-> FALSE,
               file |-> FALSE, errors |-> <<>>, log |-> <<>>]

\* no consume_pending in progress
Idle == [pc |-> "idle", force_opaque |-> FALSE, toggle |-> FALSE]

InitEngines ==
    {Engine("noattr", NoModel), Engine("none", NoModel)}
        \cup { Engine("live", m) : m \in FreshModels }

Init ==
    /\ wrapped \in BOOLEAN
    /\ \E a \in AlphaChoices, en \in BOOLEAN, e \in InitEngines :
         \E o \in {IF wrapped THEN Constructed(a, en, e)
                  ELSE Outcome(Wrapper(DefaultAlpha, FALSE, None, {}, None),
                               e.model.rgba, "", FALSE, FALSE)} :
             /\ o.exc = ""
             /\ alpha = o.w.alpha
             /\ enabled = o.w.enabled
             /\ geom_ids = o.w.geom_ids
             /\ saved_alpha = o.w.saved_alpha
             /\ last_model_ptr = o.w.last_model_ptr
             /\ sim = e.sim
             /\ model = [e.model EXCEPT !.rgba = o.rgba]
             /\ ids_fresh = o.resolved
             /\ saved_stale = FALSE
    /\ toggle_req = FALSE
    /\ force_req = FALSE
    /\ listener = 0
    /\ resolver = NoResolve
    /\ poll = Idle
    /\ unserved = FALSE
    /\ dl = NoDownload
    /\ call = Call("init", "", "None", "", FALSE, FALSE, "none")

SetEnabled ==
    /\ wrapped
    /\ \E v \in BOOLEAN :
         \E o \in {set_enabled(Self, Eng, v)} :
         /\ Commit(o, Eng)
         /\ call' = Call("set_enabled", B(v), Returned(o.exc), o.exc,
                         o.w.enabled # enabled, FALSE, "none")
    /\ UNCHANGED <<dl, poll, unserved, resolver, wrapped, toggle_req, force_req, listener>>

Toggle ==
    /\ wrapped
    /\ \E o \in {toggle(Self, Eng)} :
         /\ Commit(o, Eng)
         /\ call' = Call("toggle", "", Returned(o.exc), o.exc,
                         o.w.enabled # enabled, FALSE, "none")
    /\ UNCHANGED <<dl, poll, unserved, resolver, wrapped, toggle_req, force_req, listener>>

Visualize ==
    /\ wrapped
    /\ \E ew \in EngineWrites(Eng) :
         \E e1 \in {engine_visualize(Eng, ew)} : \E o \in {visualize(Self, e1)} :
             /\ Commit(o, e1)
             /\ call' = Call("visualize", EngineWrote(ew), Returned(o.exc), o.exc,
                             FALSE, TRUE, "none")
    /\ UNCHANGED <<dl, poll, unserved, resolver, wrapped, toggle_req, force_req, listener>>

Reset ==
    /\ wrapped
    /\ \E e1 \in EngineReset(Eng) :
         \E o \in {reset(Self, e1)} :
         /\ Commit(o, e1)
         /\ call' = Call("reset", "", Returned(o.exc), o.exc,
                         o.w.enabled # enabled, FALSE, "none")
    /\ UNCHANGED <<dl, poll, unserved, resolver, wrapped, toggle_req, force_req, listener>>

\* the engine replaces the scene graph outside the wrapper's reset (the base
\* env's own reset or reload): the old model object is destroyed and the new
\* one may be allocated at any address, the old one's included
EngineLoad ==
    /\ sim # "noattr"
    /\ \E m \in FreshModels :
         /\ sim' = "live"
         /\ model' = m
    /\ ids_fresh' = FALSE
    /\ saved_stale' = (saved_alpha # {})
    /\ call' = Call("engine_load", "", "None", "", FALSE, FALSE, "none")
    /\ UNCHANGED <<dl, poll, unserved, resolver, wrapped, wrapper_vars, toggle_req, force_req, listener>>

\* the engine destroys the sim (close), or the sim loses its model
EngineDestroy ==
    /\ sim = "live"
    /\ sim' \in {"none", "nomodel"}
    /\ model' = NoModel
    /\ ids_fresh' = FALSE
    /\ saved_stale' = (saved_alpha # {})
    /\ call' = Call("engine_destroy", "", "None", "", FALSE, FALSE, "none")
    /\ UNCHANGED <<dl, poll, unserved, resolver, wrapped, wrapper_vars, toggle_req, force_req, listener>>

\* mutant: install never finds a listener installed
already_installed_never(n) == FALSE

\* the test of line 305, n the listeners started for env so far
already_installed(n) == n > 0

\* install_enclosing_wall_hotkeys(env)
Install ==
    /\ IF already_installed(listener)
       THEN UNCHANGED <<toggle_req, force_req, listener>>
       ELSE /\ toggle_req' = FALSE
            /\ force_req' = FALSE
            /\ listener' = listener + 1
    /\ call' = Call("install", "", "None", "", FALSE, FALSE, "none")
    /\ UNCHANGED <<dl, poll, unserved, resolver, wrapped, wrapper_vars, sim, model, ids_fresh, saved_stale>>

\* the listener thread delivers a key release
KeyRelease ==
    /\ listener > 0
    /\ \E key \in Keys :
         LET f == on_release(key, toggle_req, force_req) IN
         /\ toggle_req' = f[1]
         /\ force_req' = f[2]
         /\ call' = Call("on_release", "", "None", "", FALSE, FALSE, "none")
    /\ UNCHANGED <<dl, poll, unserved, resolver, wrapped, wrapper_vars, sim, model, listener, ids_fresh, saved_stale>>

Next ==
    \/ SetEnabled
    \/ Toggle
    \/ Visualize
    \/ Reset
    \/ EngineLoad
    \/ EngineDestroy
    \/ Install
    \/ KeyRelease

Spec == Init /\ [][Next]_vars

(***************************************************************************)
(* The wrapper's operations over scenes whose layout descriptor lacks      *)
(* fields as well                                                          *)
(***************************************************************************)
InitSparse ==
    /\ wrapped = TRUE
    /\ \E a \in AlphaChoices, en \in BOOLEAN,
          e \in InitEngines \cup { Engine("live", m) : m \in SparseModels } :
         \E o \in {Constructed(a, en, e)} :
             /\ o.exc = ""
             /\ alpha = o.w.alpha
             /\ enabled = o.w.enabled
             /\ geom_ids = o.w.geom_ids
             /\ saved_alpha = o.w.saved_alpha
             /\ last_model_ptr = o.w.last_model_ptr
             /\ sim = e.sim
             /\ model = [e.model EXCEPT !.rgba = o.rgba]
             /\ ids_fresh = o.resolved
             /\ saved_stale = FALSE
    /\ toggle_req = FALSE
    /\ force_req = FALSE
    /\ listener = 0
    /\ resolver = NoResolve
    /\ poll = Idle
    /\ unserved = FALSE
    /\ dl = NoDownload
    /\ call = Call("init", "", "None", "", FALSE, FALSE, "none")

\* reset() when the engine's reset may load a scene with a sparse layout
ResetSparse ==
    /\ \E e1 \in EngineReset(Eng) \cup { Engine("live", m) : m \in SparseModels } :
         \E o \in {reset(Self, e1)} :
         /\ Commit(o, e1)
         /\ call' = Call("reset", "", Returned(o.exc), o.exc,
                         o.w.enabled # enabled, FALSE, "none")
    /\ UNCHANGED <<dl, poll, unserved, resolver, wrapped, toggle_req, force_req, listener>>

\* the engine replaces the scene graph by one of a scene with a sparse layout
EngineLoadSparse ==
    /\ sim # "noattr"
    /\ \E m \in SparseModels :
         /\ sim' = "live"
         /\ model' = m
    /\ ids_fresh' = FALSE
    /\ saved_stale' = (saved_alpha # {})
    /\ call' = Call("engine_load", "", "None", "", FALSE, FALSE, "none")
    /\ UNCHANGED <<dl, poll, unserved, resolver, wrapped, wrapper_vars, toggle_req, force_req, listener>>

NextSparse ==
    \/ SetEnabled
    \/ Toggle
    \/ Visualize
    \/ ResetSparse
    \/ EngineLoad
    \/ EngineLoadSparse

SpecSparse == InitSparse /\ [][NextSparse]_vars

(***************************************************************************)
(* The geometry resolver on its own: _match_geom_ids applied to scene      *)
(* graphs and wall names drawn from bounded sets                           *)
(***************************************************************************)
Letters == {"w", "_", "1"}
Words(n) == UNION { [1..k -> Letters] : k \in 1..n }
wall == <<"w", "a", "l", "l">>

\* body and geometry names handed to the name rule, and the wall names
RuleNames == Words(MaxNameLen) \cup {wall, wall \o <<"_", "1">>, wall \o <<"1">>,
                                      <<"1", "_">> \o wall}
RuleWalls == {<<"w">>, <<"1">>, <<"w", "1">>, wall}

\* body b reaches the world body 0 along body_parentid within fuel steps
RECURSIVE ReachesWorld(_, _, _)
ReachesWorld(parents, b, fuel) ==
    IF b = 0 THEN TRUE
    ELSE IF fuel = 0 THEN FALSE
    ELSE ReachesWorld(parents, At(parents, b), fuel - 1)

\* body_parentid of every tree of n bodies rooted at the world body, in every
\* numbering: a child's index may be lower or higher than its parent's
Trees(n) ==
    { parents \in [1..n -> 0..(n - 1)] :
        /\ At(parents, 0) = 0
        /\ \A b \in 0..(n - 1) : ReachesWorld(parents, b, n) }

BodyNames == {None, Some(<<"w">>), Some(<<"x">>)}
GeomNames == {None, Some(<<"x", "_", "w">>)}
WallLists == { <<>>, <<Some(<<"w">>)>>, <<Some(<<"v">>), Some(<<"w">>)>> }

\* geometry i is owned by body i, or by body n - 1 - i
Owners(n) == { [i \in 1..n |-> i - 1], [i \in 1..n |-> n - i] }

\* the scene graphs of n bodies handed to the resolver
Graphs(n) ==
    { [layout_id |-> None, body_names |-> bn, body_parentid |-> bp,
       geom_bodyid |-> gb, geom_names |-> gn] :
        bn \in [1..n -> BodyNames], bp \in Trees(n),
        gb \in Owners(n), gn \in [1..n -> GeomNames] }

\* layout descriptors: an empty file, no room, no walls, or up to MaxWalls
\* wall records, each with or without a name and with any value of the flag
Flags == {"true", "false", "absent", "other"}
WallRecords == { Wall(n, f) : n \in {None, Some(<<"w">>)}, f \in Flags }
Layouts ==
    {None, Some([room |-> None]), Some([room |-> Some([walls |-> None])])}
        \cup { Some([room |-> Some([walls |-> Some(ws)])]) :
                 ws \in UNION { [1..k -> WallRecords] : k \in 0..MaxWalls } }

\* the scene graphs a layout descriptor is resolved against: world body and
\* one more, with wall-like names among them
LayoutGraphs == Graphs(2)

\* the alpha buffer of a scene graph as loaded, every geometry at EngineAlpha
loaded_rgba(graph) == [i \in 1..ngeom(graph) |-> EngineAlpha]

\* lines 289-290: what _get_enclosing_wall_geom_ids makes of the resolver's result
as_resolved(r) ==
    [exc |-> r.exc, geom_ids |-> IF r.exc = "" THEN Some(r.ids) ELSE None,
     resolved |-> r.exc = ""]

\* _apply_or_restore of a wrapper without caches on a scene graph whose layout
\* descriptor is layout_data: the names are read, the graph is matched and
\* the alpha is written
first_apply(layout_data, graph, en) ==
    apply_resolved(Wrapper(DefaultAlpha, en, None, {}, Some(1)),
                   as_resolved(match_geom_ids(graph, enclosing_wall_names(layout_data))),
                   loaded_rgba(graph), TRUE)

InitResolver ==
    /\ wrapped = FALSE
    /\ alpha = DefaultAlpha
    /\ enabled = FALSE
    /\ geom_ids = None
    /\ saved_alpha = {}
    /\ last_model_ptr = None
    /\ sim = "noattr"
    /\ model = NoModel
    /\ toggle_req = FALSE
    /\ force_req = FALSE
    /\ listener = 0
    /\ call = Call("init", "", "None", "", FALSE, FALSE, "none")
    /\ ids_fresh = FALSE
    /\ saved_stale = FALSE
    /\ poll = Idle
    /\ unserved = FALSE
    /\ dl = NoDownload
    /\ \/ \E n \in RuleNames, w \in RuleWalls :
            resolver = [kind |-> "name", name |-> n, graph |-> NoGraph,
                        names |-> <<Some(w)>>, layout |-> None, en |-> FALSE,
                        out |-> None]
       \/ \E n \in 1..MaxBodies : \E g \in Graphs(n), ws \in WallLists :
            resolver = [kind |-> "graph", name |-> <<>>, graph |-> g,
                        names |-> ws, layout |-> None, en |-> FALSE, out |-> None]
       \/ \E l \in Layouts, g \in LayoutGraphs, en \in BOOLEAN :
            resolver = [kind |-> "layout", name |-> <<>>, graph |-> g,
                        names |-> <<>>, layout |-> l, en |-> en, out |-> None]

\* the loop over the wall names (lines 228-235, 258-265) for one name
MatchName ==
    /\ resolver.kind = "name" /\ resolver.out = None
    /\ resolver' = [resolver EXCEPT
                      !.out = Some(match_any(resolver.name, resolver.names, 1))]
    /\ UNCHANGED <<dl, poll, unserved, wrapped, wrapper_vars, sim, model, toggle_req, force_req,
                   listener, call, ids_fresh, saved_stale>>

\* _match_geom_ids(model, enclosing_names)
MatchGeomIds ==
    /\ resolver.kind = "graph" /\ resolver.out = None
    /\ resolver' = [resolver EXCEPT
                      !.out = Some(match_geom_ids(resolver.graph, resolver.names))]
    /\ UNCHANGED <<dl, poll, unserved, wrapped, wrapper_vars, sim, model, toggle_req, force_req,
                   listener, call, ids_fresh, saved_stale>>

\* the first _apply_or_restore on a scene graph and its layout descriptor
ResolveLayout ==
    /\ resolver.kind = "layout" /\ resolver.out = None
    /\ resolver' = [resolver EXCEPT
                      !.out = Some(first_apply(resolver.layout, resolver.graph,
                                               resolver.en))]
    /\ UNCHANGED <<dl, poll, unserved, wrapped, wrapper_vars, sim, model, toggle_req, force_req,
                   listener, call, ids_fresh, saved_stale>>

NextResolver ==
    \/ MatchName
    \/ MatchGeomIds
    \/ ResolveLayout

SpecResolver == InitResolver /\ [][NextResolver]_vars

\* ---------------------------------------------------------------------------
\* The control loop and the listener thread, statement by statement: the
\* listener's _on_release may run between any two statements of
\* consume_pending; the wrapper's own operations run on the control thread,
\* between two polls.

InitPoll ==
    /\ wrapped \in BOOLEAN
    /\ \E a \in AlphaChoices, en \in BOOLEAN, e \in InitEngines :
         \E o \in {IF wrapped THEN Constructed(a, en, e)
                  ELSE Outcome(Wrapper(DefaultAlpha, FALSE, None, {}, None),
                               e.model.rgba, "", FALSE, FALSE)} :
             /\ o.exc = ""
             /\ alpha = o.w.alpha
             /\ enabled = o.w.enabled
             /\ geom_ids = o.w.geom_ids
             /\ saved_alpha = o.w.saved_alpha
             /\ last_model_ptr = o.w.last_model_ptr
             /\ sim = e.sim
             /\ model = [e.model EXCEPT !.rgba = o.rgba]
             /\ ids_fresh = o.resolved
             /\ saved_stale = FALSE
    /\ toggle_req = FALSE
    /\ force_req = FALSE
    /\ listener = 1
    /\ resolver = NoResolve
    /\ poll = Idle
    /\ unserved = FALSE
    /\ dl = NoDownload
    /\ call = Call("install", "", "None", "", FALSE, FALSE, "none")

\* a step of consume_pending that does not return
Step(line) == Call("poll", line, "None", "", FALSE, FALSE, "none")

\* the listener thread runs _on_release(key), lines 310-316
Release ==
    /\ \E key \in Keys :
         LET f == on_release(key, toggle_req, force_req) IN
         /\ toggle_req' = f[1]
         /\ force_req' = f[2]
         /\ unserved' = (unserved \/ key = "esc")
         /\ call' = Call("on_release", key, "None", "", FALSE, FALSE, "none")
    /\ UNCHANGED <<dl, poll, resolver, wrapped, wrapper_vars, sim, model, listener,
                   ids_fresh, saved_stale>>

\* line 74: force_opaque = bool(getattr(env, "_force_enclosing_walls_opaque", False))
PollReadForce ==
    /\ poll.pc = "idle"
    /\ poll' = [pc |-> "read_toggle", force_opaque |-> force_req, toggle |-> FALSE]
    /\ call' = Step("74")
    /\ UNCHANGED <<dl, unserved, resolver, wrapped, wrapper_vars, sim, model, toggle_req,
                   force_req, listener, ids_fresh, saved_stale>>

\* lines 75-77: toggle = bool(getattr(env, "_toggle_enclosing_walls", False));
\* return False when neither flag was read set
PollReadToggle ==
    /\ poll.pc = "read_toggle"
    /\ IF nothing_pending(poll.force_opaque, toggle_req)
       THEN /\ poll' = Idle
            /\ call' = Call("consume_pending", B(poll.force_opaque) \o "," \o B(toggle_req),
                            "False", "", FALSE, FALSE, "none")
       ELSE /\ poll' = [poll EXCEPT !.pc = "act", !.toggle = toggle_req]
            /\ call' = Step("75")
    /\ UNCHANGED <<dl, unserved, resolver, wrapped, wrapper_vars, sim, model, toggle_req,
                   force_req, listener, ids_fresh, saved_stale>>

\* lines 80-81, self._wrapper.set_enabled(False), or lines 88-89,
\* self._wrapper.toggle(), skipped when the handler found no wrapper; an
\* exception of the wrapper call leaves consume_pending
PollAct ==
    /\ poll.pc = "act"
    /\ \E o \in {IF ~wrapped THEN Outcome(Self, Eng.model.rgba, "", FALSE, FALSE)
                 ELSE IF force_wins(poll.force_opaque, poll.toggle)
                 THEN set_enabled(Self, Eng, FALSE) ELSE toggle(Self, Eng)} :
         /\ Commit(o, Eng)
         /\ IF o.exc # ""
            THEN /\ poll' = Idle
                 /\ call' = Call("consume_pending",
                                 B(poll.force_opaque) \o "," \o B(poll.toggle),
                                 "raised", o.exc, o.w.enabled # enabled, FALSE, "none")
                 /\ UNCHANGED unserved
            ELSE /\ poll' = [poll EXCEPT !.pc = IF force_wins(poll.force_opaque, poll.toggle)
                                                THEN "clear_force" ELSE "clear_toggle"]
                 /\ call' = [Step(IF force_wins(poll.force_opaque, poll.toggle)
                                  THEN "81" ELSE "89")
                             EXCEPT !.flip = o.w.enabled # enabled]
                 /\ unserved' = FALSE
    /\ UNCHANGED <<dl, resolver, wrapped, toggle_req, force_req, listener>>

\* line 82: self.env._force_enclosing_walls_opaque = False
PollClearForce ==
    /\ poll.pc = "clear_force"
    /\ force_req' = FALSE
    /\ poll' = [poll EXCEPT !.pc = "clear_toggle"]
    /\ call' = Step("82")
    /\ UNCHANGED <<dl, unserved, resolver, wrapped, wrapper_vars, sim, model, toggle_req,
                   listener, ids_fresh, saved_stale>>

\* line 84 or line 90: self.env._toggle_enclosing_walls = False
PollClearToggle ==
    /\ poll.pc = "clear_toggle"
    /\ toggle_req' = FALSE
    /\ poll' = [poll EXCEPT !.pc = "refresh"]
    /\ call' = Step(IF force_wins(poll.force_opaque, poll.toggle) THEN "84" ELSE "90")
    /\ UNCHANGED <<dl, unserved, resolver, wrapped, wrapper_vars, sim, model, force_req,
                   listener, ids_fresh, saved_stale>>

\* lines 85-86 or 91-93: _refresh_visualization_and_redraw(...); return True
PollRefresh ==
    /\ poll.pc = "refresh"
    /\ \E render \in BOOLEAN, viewer \in BOOLEAN, vis \in VisSources,
          has_visualize \in BOOLEAN, has_render \in BOOLEAN :
       \E ew \in (IF vis = "none" \/ ~has_visualize THEN {<<>>} ELSE EngineWrites(Eng)) :
         \E r \in {refresh_visualization_and_redraw(Self, Eng, wrapped, render, vis,
                                                    viewer, ew, has_visualize,
                                                    has_render)} :
         \E e1 \in {IF r.pushed THEN engine_visualize(Eng, ew) ELSE Eng} :
             /\ Commit(r.o, e1)
             /\ call' = Call("consume_pending",
                             B(poll.force_opaque) \o "," \o B(poll.toggle),
                             IF r.o.exc # "" THEN "raised" ELSE "True", r.o.exc,
                             FALSE, r.pushed, r.redraw)
    /\ poll' = Idle
    /\ UNCHANGED <<dl, unserved, resolver, wrapped, toggle_req, force_req, listener>>

\* one statement of consume_pending
Poll ==
    \/ PollReadForce
    \/ PollReadToggle
    \/ PollAct
    \/ PollClearForce
    \/ PollClearToggle
    \/ PollRefresh

\* the control thread calls the wrapper, or the engine loads a scene graph,
\* between two polls
BetweenPolls ==
    /\ poll.pc = "idle"
    /\ \/ SetEnabled
       \/ EngineLoad

NextPoll ==
    \/ Release
    \/ Poll
    \/ BetweenPolls

\* the control loop keeps polling: a statement of consume_pending that can
\* run does run
SpecPoll == InitPoll /\ [][NextPoll]_vars /\ WF_vars(Poll)


\* ---------------------------------------------------------------------------
\* The download scripts: download_and_extract_from_box (download_datasets.py)
\* and download_and_extract_zip (download_kitchen_assets.py).

\* for i in range(3)
Attempts == 3

DownloadFns == {"box", "zip"}

\* what download_url raises: the url is unreachable or the server refuses
\* (nothing is written), or urlretrieve got less than the announced length (a
\* partial file is left)
DownloadErrors == {"URLError", "HTTPError", "ContentTooShortError"}

\* mutant: a loop without the break after a successful download
loop_continues_no_break(download_success, i) == i < Attempts

\* the loop runs another download_url: no break yet and i within range(3)
loop_continues(download_success, i) == ~download_success /\ i < Attempts

InitDownload ==
    /\ wrapped = FALSE
    /\ alpha = DefaultAlpha
    /\ enabled = FALSE
    /\ geom_ids = None
    /\ saved_alpha = {}
    /\ last_model_ptr = None
    /\ sim = "noattr"
    /\ model = NoModel
    /\ toggle_req = FALSE
    /\ force_req = FALSE
    /\ listener = 0
    /\ call = Call("init", "", "None", "", FALSE, FALSE, "none")
    /\ ids_fresh = FALSE
    /\ saved_stale = FALSE
    /\ resolver = NoResolve
    /\ poll = Idle
    /\ unserved = FALSE
    /\ \E fn \in DownloadFns, file \in BOOLEAN :
         dl = [fn |-> fn, pc |-> "start", i |-> 0, download_success |-> FALSE,
               file |-> file, errors |-> <<>>, log |-> <<>>]

DownloadStep(d) ==
    /\ dl' = d
    /\ UNCHANGED <<wrapped, wrapper_vars, sim, model, toggle_req, force_req, listener,
                   call, ids_fresh, saved_stale, resolver, poll, unserved>>

\* the returns before the loop: no Box link for the key (box, lines 131-133),
\* the user declines (zip, lines 165-182); otherwise download_success = False
DownloadStart ==
    /\ dl.pc = "start"
    /\ \E proceed \in BOOLEAN :
         DownloadStep(IF proceed THEN [dl EXCEPT !.pc = "loop"]
                      ELSE [dl EXCEPT !.pc = "returned", !.log = <<"return">>])

\* one iteration of the loop: download_url returns (download_success = True;
\* break) or raises an Exception, which is caught and printed
DownloadAttempt ==
    /\ dl.pc = "loop"
    /\ loop_continues(dl.download_success, dl.i)
    /\ \E r \in {"ok"} \cup DownloadErrors :
         DownloadStep([dl EXCEPT !.i = dl.i + 1,
                                 !.download_success = dl.download_success \/ r = "ok",
                                 !.file = IF r = "ok" THEN TRUE
                                          ELSE dl.file \/ r = "ContentTooShortError",
                                 !.errors = IF r = "ok" THEN dl.errors
                                            ELSE Append(dl.errors, r),
                                 !.log = Append(dl.log, IF r = "ok" THEN "ok" ELSE "fail")])

\* if not download_success: return; the Box function first removes what is at
\* the archive path (lines 159-163), the zip function does not (lines 198-200)
DownloadFailed ==
    /\ dl.pc = "loop"
    /\ ~loop_continues(dl.download_success, dl.i)
    /\ ~dl.download_success
    /\ DownloadStep([dl EXCEPT !.pc = "returned",
                               !.file = IF dl.fn = "box" THEN FALSE ELSE dl.file,
                               !.log = dl.log \o (IF dl.fn = "box" /\ dl.file
                                                  THEN <<"discard">> ELSE <<>>)
                                              \o <<"return">>])

\* tar.extractall / zip_ref.extractall, which returns or raises
DownloadExtract ==
    /\ dl.pc = "loop"
    /\ ~loop_continues(dl.download_success, dl.i)
    /\ dl.download_success
    /\ \E ok \in BOOLEAN :
         DownloadStep(IF ok THEN [dl EXCEPT !.pc = "extracted",
                                           !.log = Append(dl.log, "extract")]
                      ELSE [dl EXCEPT !.pc = "raised", !.log = Append(dl.log, "raise")])

\* os.remove of the archive after the extraction, then the function returns
DownloadRemove ==
    /\ dl.pc = "extracted"
    /\ DownloadStep([dl EXCEPT !.pc = "returned", !.file = FALSE,
                               !.log = dl.log \o <<"delete", "return">>])

NextDownload ==
    \/ DownloadStart
    \/ DownloadAttempt
    \/ DownloadFailed
    \/ DownloadExtract
    \/ DownloadRemove

SpecDownload == InitDownload /\ [][NextDownload]_vars

(***************************************************************************)
(* Properties                                                              *)
(***************************************************************************)
Live == sim = "live"
ToSet(seq) == {seq[k] : k \in 1..Len(seq)}
AlphaOf(gi) == At(model.rgba, gi)

\* the geometry indices the resolver gives for the live scene graph
LiveWallIds == SceneGeomIds[model.scene].ids
LiveWalls == ToSet(LiveWallIds)

\* the cache holds the resolved set of the live scene graph
CacheOfLive == ids_fresh /\ geom_ids = Some(LiveWallIds)

\* C1 as claimed: in every reachable state with a live scene graph, enabled
\* false implies that every enclosing-wall geometry of the live scene graph has
\* alpha 1.0.
C1_AsClaimed ==
    (wrapped /\ Live /\ ~enabled) => \A gi \in LiveWalls : AlphaOf(gi) = Opaque

\* C1 as amended: whenever enabled is false and the wrapper holds a resolved set
\* computed for the live scene graph, that set is the resolver's result for the
\* live graph and every geometry index in it has alpha exactly 1.0.
C1_DisabledOpaque ==
    (wrapped /\ Live /\ ~enabled /\ ids_fresh) =>
        /\ geom_ids = Some(LiveWallIds)
        /\ \A gi \in LiveWalls : AlphaOf(gi) = Opaque

\* C1 witness: the overlay was switched off on a live graph with walls, and the
\* cache is the one of that graph
C1_Witness ==
    /\ wrapped /\ Live /\ ~enabled /\ CacheOfLive /\ LiveWalls # {}
    /\ call.op = "set_enabled" /\ call.arg = "False"

\* C2 as claimed: in every reachable state with a live scene graph, enabled true
\* implies that every enclosing-wall geometry of the live scene graph has the
\* configured overlay alpha.
C2_AsClaimed ==
    (wrapped /\ Live /\ enabled) => \A gi \in LiveWalls : AlphaOf(gi) = alpha

\* C2 as amended: whenever enabled is true and the wrapper holds a resolved set
\* computed for the live scene graph, that set is the resolver's result for the
\* live graph and every geometry index in it has the configured overlay alpha.
C2_EnabledOverlay ==
    (wrapped /\ Live /\ enabled /\ ids_fresh) =>
        /\ geom_ids = Some(LiveWallIds)
        /\ \A gi \in LiveWalls : AlphaOf(gi) = alpha

\* C2 witness: the overlay was switched on, with an alpha other than the default,
\* on a live graph with walls
C2_Witness ==
    /\ wrapped /\ Live /\ enabled /\ CacheOfLive /\ LiveWalls # {}
    /\ alpha # DefaultAlpha
    /\ call.op = "set_enabled" /\ call.arg = "True"

\* C3 as claimed: a set_enabled(false) or a toggle that disables the overlay
\* and returns leaves the saved-alpha map empty, whether or not a scene graph is
\* live at that moment.
C3_AsClaimed ==
    (wrapped /\ call.op \in {"set_enabled", "toggle"} /\ call.exc = "" /\ ~enabled)
        => saved_alpha = {}

\* the indices the wrapper holds as its resolved set
CachedIds == IF geom_ids = None THEN {} ELSE ToSet(geom_ids[1])

\* C4: with a live scene graph, a set_enabled(true) that switches the overlay on
\* and returns, followed by set_enabled(false), returns with the overlay off and
\* with alpha exactly 1.0 on every geometry of the wrapper's resolved set,
\* whatever alpha those geometries had before.
C4_RoundTripOpaque ==
    [][(/\ wrapped /\ Live
        /\ call.op = "set_enabled" /\ call.arg = "True" /\ call.flip /\ call.exc = ""
        /\ call'.op = "set_enabled" /\ call'.arg = "False")
       => /\ call'.exc = "" /\ call'.flip /\ ~enabled'
          /\ geom_ids' # None
          /\ \A gi \in ToSet(geom_ids'[1]) : At(model'.rgba, gi) = Opaque]_vars

\* C4 witness: set_enabled(false) switched the overlay off on a live graph whose
\* walls the wrapper holds, and a geometry outside the walls is not opaque (so
\* opacity of the walls comes from the write)
C4_Witness ==
    /\ wrapped /\ Live /\ ~enabled /\ CacheOfLive /\ LiveWalls # {}
    /\ call.op = "set_enabled" /\ call.arg = "False" /\ call.flip /\ call.exc = ""
    /\ \E i \in 1..Len(model.rgba) : model.rgba[i] # Opaque

\* C5 as claimed: when the overlay is disabled after having been enabled, every
\* geometry with a saved original alpha gets that original alpha back.
C5_AsClaimed ==
    [][(/\ wrapped /\ Live /\ enabled /\ CacheOfLive
        /\ ~enabled' /\ call'.op = "set_enabled" /\ call'.exc = "")
       => \A p \in saved_alpha : At(model'.rgba, p[1]) = p[2]]_vars

\* C6: set_enabled(v) called while enabled already equals v changes no geometry
\* alpha, no cached geometry set, no saved-alpha entry and no identity token (nor
\* anything else of the wrapper, the engine or the request flags).
C6_SetEnabledNoOp ==
    [][(call'.op = "set_enabled" /\ call'.arg = B(enabled))
       => /\ UNCHANGED <<wrapper_vars, sim, model, toggle_req, force_req, listener>>
          /\ call'.exc = ""]_vars

\* C6 witness: set_enabled(true) returned on an enabled overlay whose token is
\* not the live model's, which a call that had applied the overlay would have
\* adopted: the call was the no-op
C6_Witness ==
    /\ wrapped /\ Live /\ enabled
    /\ call.op = "set_enabled" /\ call.arg = "True" /\ call.exc = ""
    /\ last_model_ptr # Some(model.ptr)

\* C7 as claimed: when the scene graph has been replaced while the overlay is
\* enabled, the next apply_or_restore (here: of visualize) discards the cached
\* indices and saved alphas, resolves against the new graph and writes the
\* overlay alpha to every newly resolved geometry.
C7_AsClaimed ==
    [][(/\ wrapped /\ Live /\ enabled
        /\ call.op = "engine_load"
        /\ call'.op = "visualize")
       => /\ call'.exc = ""
          /\ geom_ids' = Some(LiveWallIds)
          /\ \A p \in saved_alpha' :
                p[1] \in LiveWalls /\ p[2] \in {AlphaOf(p[1]), EngineAlpha}
          /\ \A gi \in LiveWalls : At(model'.rgba, gi) = alpha]_vars

\* C8: when reset() returns, the token, the cached set and the saved alphas
\* come from the scene graph the engine's reset left: with the overlay enabled
\* and a live graph, the cache is the resolver's result for it, every resolved
\* geometry has the overlay alpha and the saved-alpha map has exactly one entry
\* per resolved geometry, none read from an earlier graph; otherwise the cache,
\* the map and the token are empty.
C8_ResetReapplies ==
    (wrapped /\ call.op = "reset") =>
        /\ call.exc = ""
        /\ ~saved_stale
        /\ IF enabled /\ Live
           THEN /\ last_model_ptr = Some(model.ptr)
                /\ geom_ids = Some(LiveWallIds)
                /\ ids_fresh
                /\ \A gi \in LiveWalls : AlphaOf(gi) = alpha
                /\ {p[1] : p \in saved_alpha} = LiveWalls
                /\ Cardinality(saved_alpha) = Cardinality(LiveWalls)
           ELSE /\ last_model_ptr = None
                /\ geom_ids = None
                /\ saved_alpha = {}

\* C8 witness: reset() returned with the overlay enabled on a live graph that
\* has walls
C8_Witness ==
    /\ wrapped /\ Live /\ enabled /\ call.op = "reset" /\ call.exc = ""
    /\ LiveWalls # {} /\ saved_alpha # {}

\* a statement of the poll that read the flags as force and tog runs
PollRuns(pc, force, tog) ==
    poll.pc = pc /\ poll.force_opaque = force /\ poll.toggle = tog /\ poll' # poll

\* C9 as claimed: a consume_pending that read both flags set disables the
\* overlay with its wrapper call, clears both flags and returns true.
C9_AsClaimed ==
    [][/\ PollRuns("act", TRUE, TRUE) => (poll'.pc = "clear_force" /\ ~enabled')
       /\ PollRuns("clear_force", TRUE, TRUE) => ~force_req'
       /\ PollRuns("clear_toggle", TRUE, TRUE) => ~toggle_req'
       /\ (call'.op = "consume_pending" /\ call'.arg = "True,True")
            => (call'.ret = "True" /\ ~enabled')]_vars

\* C10: a consume_pending that read neither flag set returns false, changes
\* nothing (wrapper fields, engine, alpha buffer, flags) and requests no
\* visualization push and no redraw.
C10_NothingPending ==
    [][/\ (call'.op = "consume_pending" /\ call'.arg = "False,False")
            => /\ call'.ret = "False" /\ call'.exc = ""
               /\ ~call'.pushed /\ call'.redraw = "none"
       /\ (poll.pc \in {"idle", "read_toggle"} /\ poll' # poll)
            => UNCHANGED <<wrapped, wrapper_vars, sim, model, toggle_req, force_req,
                           listener, ids_fresh, saved_stale>>]_vars

\* C10 witness: a poll that read neither flag set returned false, on an
\* enabled overlay over a live graph with a listener installed
C10_Witness ==
    /\ wrapped /\ Live /\ enabled /\ listener > 0
    /\ call.op = "consume_pending" /\ call.arg = "False,False" /\ call.ret = "False"

\* C11 as claimed: on a session that holds the overlay wrapper, a
\* consume_pending that read only toggle_requested set flips enabled once with
\* its wrapper call, clears toggle_requested, never writes
\* force_opaque_requested, runs the redraw helper and returns true.
C11_AsClaimed ==
    [][wrapped =>
        /\ PollRuns("act", FALSE, TRUE)
             => (poll'.pc = "clear_toggle" /\ enabled' # enabled)
        /\ PollRuns("clear_toggle", FALSE, TRUE) => ~toggle_req'
        /\ (poll.toggle /\ ~poll.force_opaque /\ poll' # poll)
             => (force_req' = force_req /\ poll'.pc # "clear_force")
        /\ (call'.op = "consume_pending" /\ call'.arg = "False,True")
             => (call'.ret = "True" /\ call'.exc = "")]_vars

\* C12: while the session exposes no live scene graph (no sim attribute, sim
\* None or sim.model None), set_enabled, toggle and visualize's apply_or_restore
\* never raise, write no geometry alpha and leave the cached geometry set, the
\* saved-alpha map and the identity token unchanged.
C12_NoSimNoOp ==
    [][(wrapped /\ ~Live /\ call'.op \in {"set_enabled", "toggle", "visualize"})
       => /\ call'.exc = ""
          /\ UNCHANGED <<geom_ids, saved_alpha, last_model_ptr, sim, model>>]_vars

\* C12 witness: set_enabled flipped the overlay while the sim was gone, the
\* wrapper still holding caches of the destroyed graph
C12_Witness ==
    /\ wrapped /\ ~Live
    /\ call.op = "set_enabled" /\ call.flip /\ call.exc = ""
    /\ geom_ids # None /\ geom_ids # Some(<<>>) /\ saved_alpha # {}

\* C13 as claimed: whatever fields the layout descriptor lacks (room, walls, a
\* wall record's name or its enclosing_wall flag), set_enabled, toggle, reset
\* and visualize complete without raising.
C13_AsClaimed ==
    (wrapped /\ call.op \in {"set_enabled", "toggle", "reset", "visualize"})
        => call.exc = ""

\* C14: after visualize(settings) returns with a live scene graph, the engine's
\* own visualize has run first with the settings (what it wrote to a geometry
\* outside the resolved set is still there), and every geometry of the
\* wrapper's resolved set has the overlay alpha if enabled and 1.0 if
\* disabled, whatever the engine wrote.
C14_VisualizeReapplies ==
    [][(wrapped /\ Live' /\ call'.op = "visualize" /\ call'.exc = "")
       => /\ call'.pushed
          /\ geom_ids' # None
          /\ \A gi \in 0..(Len(model'.rgba) - 1) :
                IF gi \in ToSet(geom_ids'[1])
                THEN At(model'.rgba, gi) = (IF enabled' THEN alpha' ELSE Opaque)
                ELSE IF call'.arg = ToString(gi)
                THEN At(model'.rgba, gi) = EngineAlpha
                ELSE At(model'.rgba, gi) = At(model.rgba, gi)]_vars

\* C14 witness: the engine's visualize wrote its alpha to the wall geometry 1
\* of an enabled overlay, and visualize returned with the overlay alpha there
C14_Witness ==
    /\ wrapped /\ Live /\ enabled /\ alpha # EngineAlpha
    /\ call.op = "visualize" /\ call.arg = "1" /\ call.exc = ""
    /\ geom_ids = Some(<<1>>) /\ AlphaOf(1) = alpha

\* C15: a key release on the listener thread can only set toggle_requested or
\* force_opaque_requested to true: it clears no flag and changes neither the
\* enabled state, the cached geometry set, the saved-alpha map, the identity
\* token nor any geometry alpha.
C15_ListenerOnlySetsFlags ==
    [][call'.op = "on_release"
       => /\ (toggle_req => toggle_req') /\ (force_req => force_req')
          /\ UNCHANGED <<wrapped, wrapper_vars, sim, model, listener>>]_vars

\* C15 witness: a key was released while both flags were already pending on
\* an enabled overlay with saved alphas, and both flags are still pending
C15_Witness ==
    /\ wrapped /\ Live /\ enabled /\ saved_alpha # {}
    /\ call.op = "on_release" /\ toggle_req /\ force_req

\* C16: install leaves exactly one listener, and an install on a session that
\* already has a listener changes nothing: the flags that were pending are
\* still pending and no second listener is started.
C16_InstallIdempotent ==
    [][call'.op = "install"
       => /\ listener' = 1
          /\ listener > 0 =>
                UNCHANGED <<wrapped, wrapper_vars, sim, model, toggle_req, force_req,
                            listener>>]_vars

\* C16 witness: install ran on a session that had a listener and a pending
\* toggle request, which is still pending
C16_Witness ==
    /\ call.op = "install" /\ listener = 1 /\ toggle_req /\ ~force_req

\* the engine states the engine's own part of an operation can leave: its
\* reset for reset, its visualize for visualize, nothing for the others
EngineParts(op) ==
    CASE op = "reset" -> EngineReset(Eng)
      [] op = "visualize" -> { engine_visualize(Eng, ew) : ew \in EngineWrites(Eng) }
      [] OTHER -> {Eng}

\* C17: set_enabled, toggle, reset's re-apply and visualize's re-apply write
\* only the alpha of the geometry indices of the wrapper's resolved set: apart
\* from what the engine's own reset or visualize did, the model object, its
\* scene (bodies, parents, names, layout) and the alpha of every geometry
\* outside the resolved set are unchanged.
C17_FrameAlphaOnly ==
    [][(wrapped /\ call'.op \in {"set_enabled", "toggle", "reset", "visualize"})
       => \E e1 \in EngineParts(call'.op) :
            /\ sim' = e1.sim
            /\ model'.ptr = e1.model.ptr /\ model'.scene = e1.model.scene
            /\ Len(model'.rgba) = Len(e1.model.rgba)
            /\ \A gi \in 0..(Len(model'.rgba) - 1) :
                  gi \notin CachedIds' => At(model'.rgba, gi) = At(e1.model.rgba, gi)]_vars

\* C17 witness: set_enabled(true) wrote the overlay alpha to the wall geometry
\* 1 of scene 1 and the floor geometry 0 kept its alpha 1.0
C17_Witness ==
    /\ wrapped /\ Live /\ model.scene = 1 /\ alpha # Opaque
    /\ call.op = "set_enabled" /\ call.flip /\ call.exc = "" /\ enabled
    /\ geom_ids = Some(<<1>>) /\ AlphaOf(1) = alpha /\ AlphaOf(0) = Opaque

\* the name rule written with concatenation: N is W, W_ followed by a suffix
\* of N, or a prefix of N followed by _W
RuleHolds(N, W) ==
    \/ N = W
    \/ \E k \in 0..Len(N) : N = W \o <<"_">> \o SubSeq(N, Len(N) - k + 1, Len(N))
    \/ \E k \in 0..Len(N) : N = SubSeq(N, 1, k) \o <<"_">> \o W

\* C18: a name N matches wall name W exactly when N equals W, N starts with W
\* followed by an underscore, or N ends with an underscore followed by W; for
\* W = "wall", "wall_1" matches and "wall1" does not.
C18_NameRule ==
    (resolver.kind = "name" /\ resolver.out # None) =>
        /\ resolver.out[1] =
             (IF RuleHolds(resolver.name, resolver.names[1][1]) THEN "match" ELSE "nomatch")
        /\ (resolver.names = <<Some(wall)>> /\ resolver.name = wall \o <<"_", "1">>)
              => resolver.out[1] = "match"
        /\ (resolver.names = <<Some(wall)>> /\ resolver.name = wall \o <<"1">>)
              => resolver.out[1] = "nomatch"

\* C18 witness: the name "wall1" was compared with the wall name "wall" and
\* did not match
C18_Witness ==
    /\ resolver.kind = "name" /\ resolver.names = <<Some(wall)>>
    /\ resolver.name = wall \o <<"1">> /\ resolver.out = Some("nomatch")

\* the graph the resolver was called on, and its bodies and geometries
RGraph == resolver.graph
RBodies == 0..(nbody(RGraph) - 1)
RGeoms == 0..(ngeom(RGraph) - 1)
RIds == ToSet(resolver.out[1].ids)

\* body a has a name that matches one of the wall names
BodyMatches(a) ==
    /\ At(RGraph.body_names, a) # None
    /\ \E k \in 1..Len(resolver.names) :
          RuleHolds(At(RGraph.body_names, a)[1], resolver.names[k][1])

\* body b is body a or a transitive descendant of it (fuel bounds the depth)
RECURSIVE DescendsFrom(_, _, _)
DescendsFrom(b, a, fuel) ==
    \/ b = a
    \/ fuel > 0 /\ b # 0 /\ DescendsFrom(At(RGraph.body_parentid, b), a, fuel - 1)

\* C19: for every body tree and every numbering of its bodies, if body A
\* matches a wall name then every geometry owned by A or by a transitive
\* descendant of A, at any depth, is in the resolved set.
C19_DescendantClosure ==
    (resolver.kind = "graph" /\ resolver.out # None) =>
        /\ resolver.out[1].exc = ""
        /\ \A a \in RBodies, b \in RBodies, i \in RGeoms :
              (BodyMatches(a) /\ DescendsFrom(b, a, nbody(RGraph))
                 /\ At(RGraph.geom_bodyid, i) = b) => i \in RIds

\* C19 witness: body 2 "w" is a child of the world, the unnamed body 1 is a
\* child of body 2 (its index is lower than its parent's), and the unnamed
\* geometry 1 of body 1 is in the resolved set
C19_Witness ==
    /\ resolver.kind = "graph" /\ resolver.names = <<Some(<<"w">>)>>
    /\ RGraph.body_names = <<Some(<<"x">>), None, Some(<<"w">>)>>
    /\ RGraph.body_parentid = <<0, 2, 0>>
    /\ RGraph.geom_bodyid = <<0, 1, 2>>
    /\ RGraph.geom_names = <<None, None, None>>
    /\ resolver.out = Some([exc |-> "", ids |-> <<1, 2>>])

\* geometry i has a name that matches one of the wall names
GeomMatches(i) ==
    /\ At(RGraph.geom_names, i) # None
    /\ \E k \in 1..Len(resolver.names) :
          RuleHolds(At(RGraph.geom_names, i)[1], resolver.names[k][1])

\* C20: the resolved set is exactly the reference set: geometry i is in it if
\* and only if its owning body is a name-matched body or a descendant of one,
\* or its own name matches a wall name; and each index appears once.
C20_ResolverExact ==
    (resolver.kind = "graph" /\ resolver.out # None) =>
        /\ resolver.out[1].exc = ""
        /\ \A j, k \in 1..Len(resolver.out[1].ids) :
              resolver.out[1].ids[j] = resolver.out[1].ids[k] => j = k
        /\ RIds = { i \in RGeoms :
                      \/ \E a \in RBodies :
                            /\ BodyMatches(a)
                            /\ DescendsFrom(At(RGraph.geom_bodyid, i), a, nbody(RGraph))
                      \/ GeomMatches(i) }

\* C20 witness: no body matches, geometry 1 "x_w" is resolved through its own
\* name and the unnamed geometry 0 is left out
C20_Witness ==
    /\ resolver.kind = "graph" /\ resolver.names = <<Some(<<"v">>), Some(<<"w">>)>>
    /\ RGraph.body_names = <<Some(<<"x">>), Some(<<"x">>)>>
    /\ RGraph.geom_names = <<None, Some(<<"x", "_", "w">>)>>
    /\ resolver.out = Some([exc |-> "", ids |-> <<1>>])

\* the wall records of the layout descriptor handed to the registry
RWalls ==
    IF resolver.layout = None THEN <<>>
    ELSE IF resolver.layout[1].room = None THEN <<>>
    ELSE IF resolver.layout[1].room[1].walls = None THEN <<>>
    ELSE resolver.layout[1].room[1].walls[1]

\* C21: for every layout descriptor in which no wall record has the
\* enclosing_wall flag exactly true (false, absent or another value), the
\* resolved set is empty for every scene graph, wall-like names included,
\* nothing raises and no alpha is written.
C21_OnlyFlaggedWalls ==
    (/\ resolver.kind = "layout" /\ resolver.out # None
     /\ \A k \in 1..Len(RWalls) : RWalls[k].enclosing_wall # "true")
        => /\ resolver.out[1].exc = ""
           /\ resolver.out[1].w.geom_ids = Some(<<>>)
           /\ resolver.out[1].rgba = loaded_rgba(resolver.graph)

\* C21 witness: the wall "w" carries a flag that is neither true nor false,
\* body 1 and its geometry are named "w" / "x_w", the overlay is enabled,
\* and the resolved set is empty with the alpha buffer as loaded
C21_Witness ==
    /\ resolver.kind = "layout" /\ resolver.en
    /\ RWalls = <<Wall(Some(<<"w">>), "other")>>
    /\ resolver.graph.body_names = <<Some(<<"x">>), Some(<<"w">>)>>
    /\ resolver.graph.geom_names = <<Some(<<"x", "_", "w">>), Some(<<"x", "_", "w">>)>>
    /\ resolver.out # None
    /\ resolver.out[1].w.geom_ids = Some(<<>>)
    /\ resolver.out[1].rgba = <<EngineAlpha, EngineAlpha>>

\* C22 as claimed: however many times the toggle key was released since the
\* previous consume_pending, a consume_pending of a session that holds the
\* wrapper that reads the toggle flag set and the force flag clear toggles
\* the overlay exactly once and clears the flag, and a consume_pending that
\* reads its flags while no toggle release is waiting for a wrapper call and
\* no force request was read returns false.
C22_AsClaimed ==
    [][wrapped =>
        /\ (poll.pc = "read_toggle" /\ ~poll.force_opaque /\ toggle_req /\ poll' # poll)
             => poll'.pc = "act"
        /\ PollRuns("act", FALSE, TRUE)
             => (call'.flip /\ call'.exc = "" /\ ~unserved')
        /\ (poll.pc = "clear_toggle" /\ poll' # poll) => (~toggle_req' /\ enabled' = enabled)
        /\ (poll.pc = "refresh" /\ poll' # poll) => enabled' = enabled
        /\ (poll.pc = "read_toggle" /\ ~poll.force_opaque /\ ~unserved /\ poll' # poll)
             => (call'.op = "consume_pending" /\ call'.ret = "False")]_vars

\* the outcome of the wrapper operation recorded in call'
OutcomeOf(op, arg) ==
    IF op = "set_enabled" THEN {set_enabled(Self, Eng, arg = "True")}
    ELSE IF op = "toggle" THEN {toggle(Self, Eng)}
    ELSE { visualize(Self, engine_visualize(Eng, ew)) :
             ew \in {x \in EngineWrites(Eng) : EngineWrote(x) = arg} }

\* C23: while the wrapper holds a cached geometry set whose identity token is
\* that of the live scene graph, set_enabled, toggle and visualize reuse the
\* cached set, an empty one included: the set is not computed again and the
\* cache and the token are unchanged.
C23_CacheReused ==
    [][(wrapped /\ Live /\ geom_ids # None /\ ~model_reloaded(Self, Eng)
          /\ call'.op \in {"set_enabled", "toggle", "visualize"})
       => /\ geom_ids' = geom_ids
          /\ last_model_ptr' = last_model_ptr
          /\ \A o \in OutcomeOf(call'.op, call'.arg) : ~o.resolved]_vars

C23_Witness ==
    /\ wrapped /\ Live /\ call.op = "toggle" /\ call.exc = "" /\ call.flip
    /\ enabled /\ ids_fresh
    /\ geom_ids = Some(<<>>) /\ Scene(model.scene).layout_id # None
    /\ last_model_ptr = Some(model.ptr)

\* C24 as claimed: no toggle request is lost. A release of the toggle key that
\* no wrapper call of consume_pending has followed yet is still recorded,
\* either in the toggle flag or in a poll that has read its flags and is about
\* to call the wrapper; otherwise no later poll can act on account of it.
C24_AsClaimed == (wrapped /\ unserved) => (toggle_req \/ poll.pc = "act")

\* C25: with the wrapper held and the control loop polling, every release of a
\* force-opaque key is followed by a state in which the overlay is disabled,
\* and a pending force-opaque flag is eventually cleared.
C25_ForceOverride ==
    /\ (wrapped /\ call.op = "on_release" /\ call.arg \in {"[", "]"}) ~> ~enabled
    /\ (wrapped /\ force_req) ~> ~force_req

\* the download attempts of the call so far
DownloadTries == SelectSeq(dl.log, LAMBDA x : x \in {"ok", "fail"})

\* C26: a retry-and-extract function makes at most three download attempts
\* and none after a successful one; it extracts only after a successful
\* attempt and deletes the archive only right after extracting it; once three
\* attempts have failed it returns, having extracted nothing and raised nothing.
C26_RetryExtract ==
    /\ Len(DownloadTries) <= 3
    /\ \A k \in 1..Len(DownloadTries) : DownloadTries[k] = "ok" => k = Len(DownloadTries)
    /\ \A k \in 1..Len(dl.log) :
         /\ dl.log[k] = "extract" => \E j \in 1..(k - 1) : dl.log[j] = "ok"
         /\ dl.log[k] = "delete" => (k > 1 /\ dl.log[k - 1] = "extract")
    /\ DownloadTries = <<"fail", "fail", "fail">> =>
         /\ dl.pc \in {"loop", "returned"}
         /\ \A k \in 1..Len(dl.log) : dl.log[k] \notin {"extract", "delete", "raise"}
         /\ ENABLED DownloadFailed \/ dl.pc = "returned"

C26_Witness ==
    /\ dl.fn = "zip" /\ dl.pc = "returned" /\ dl.file
    /\ dl.errors = <<"URLError", "ContentTooShortError", "URLError">>
    /\ dl.log = <<"fail", "fail", "fail", "return">>
====
